---- MODULE Spec2Model ----
(***************************************************************************)
(* A state-machine model of the telegram-ai-publisher scripts.             *)
(*                                                                         *)
(* bot_advanced.py: one run of main(): the source reader                   *)
(* (fetch_recent_posts, get_content_from_sources), the four transform      *)
(* functions with their credential pool (get_next_available_key,           *)
(* mark_key_as_blocked) and the continuation of main() between them.       *)
(*                                                                         *)
(* bot.py: one run of main(): get_channel_posts for every source channel,  *)
(* fetch_content, ai_translate_and_summarize and send_to_telegram.         *)
(*                                                                         *)
(* Texts are abstracted to the numbers the code looks at: their length,    *)
(* their length after strip(), and how many of their characters are        *)
(* Arabic (U+0600..U+06FF), alphabetic, Cyrillic.                          *)
(***************************************************************************)
EXTENDS Integers, Sequences, FiniteSets, TLC

(* ------------------------------------------------------------ bounds *)
\* Largest number of configured credentials (OPENAI_API_KEY, OPENAI_API_KEY_2..).
MaxKeys == 2
\* Number of configured source channels (len(SOURCE_CHANNELS)).
NumChannels == 2
\* Largest number of messages the channels yield together in one run.
MaxMessages == 6
\* Largest number of lines in a thread response.
MaxLines == 3

\* The per-channel limit handed to iter_messages: the configured value is
\* taken so that all channels together stay within MaxMessages.
POSTS_LIMIT == MaxMessages \div NumChannels

(* --------------------------------------------------- program constants *)
MIN_CONTENT_LENGTH == 100
translate_to_arabic_max_retries == 2
translate_to_english_max_retries == 2
generate_arabic_post_max_retries == 3
generate_english_twitter_thread_max_retries == 3
TWEET_CAP == 280
MIN_TWEETS == 3
\* bot.py
ai_translate_and_summarize_max_retries == 3
bot_send_to_telegram_max_retries == 3

None == [none |-> TRUE]

Max(a, b) == IF a >= b THEN a ELSE b

(* ------------------------------------------------------- sample inputs *)
\* A Telegram message as the code reads it: len = len(message.text) (0: no
\* text), slen = len(message.text.strip()), media = photo or video present,
\* arabic / latin / cyrillic = the character counts of detect_language.
Msg(l, s, m, a, la, c) ==
    [len |-> l, slen |-> s, media |-> m, arabic |-> a, latin |-> la, cyrillic |-> c]

MessageSamples ==
    { Msg(300, 300, FALSE, 0, 240, 0),   \* long, Latin script, no media
      Msg(120, 110, TRUE, 90, 5, 0),     \* long, Arabic, padded, with media
      Msg(104, 60, FALSE, 0, 50, 0),     \* long only with its padding
      Msg(60, 60, TRUE, 0, 50, 50),      \* medium caption (Cyrillic) of a photo
      Msg(30, 30, TRUE, 25, 0, 0),       \* short Arabic caption of a photo
      Msg(60, 60, FALSE, 0, 50, 0),      \* medium text, no media
      Msg(0, 0, TRUE, 0, 0, 0) }         \* media without text

\* A text returned by the transformation endpoint: len = len(text),
\* arabic = characters in U+0600..U+06FF, alpha = characters with isalpha().
Text(l, a, al) == [len |-> l, arabic |-> a, alpha |-> al]

ArabicTranslationSamples ==
    { Text(80, 60, 70),      \* Arabic
      Text(40, 30, 35),      \* Arabic, short
      Text(80, 35, 70),      \* ratio exactly 0.5
      Text(10, 0, 0) }       \* no alphabetic character
ArabicPostSamples ==
    { Text(400, 300, 350),   \* Arabic and long
      Text(300, 280, 290),   \* length exactly 300
      Text(400, 210, 350),   \* ratio exactly 0.6
      Text(400, 40, 50),     \* Arabic, long, few letters
      Text(400, 0, 0) }      \* no alphabetic character
EnglishSamples ==
    { Text(100, 0, 80),      \* English
      Text(300, 0, 250),     \* English, longer than a tweet
      Text(20, 0, 15),       \* length exactly 20
      Text(100, 1, 80) }     \* one Arabic character

\* A line of a thread response: tweet = starts with "TWEET " and holds a ":",
\* len / arabic = those of the content after the first ":".
Line(t, l, a) == [tweet |-> t, len |-> l, arabic |-> a]
LineSamples ==
    { Line(TRUE, 100, 0),    \* a tweet
      Line(TRUE, 300, 0),    \* a tweet over the cap
      Line(TRUE, 100, 3),    \* a tweet with Arabic characters
      Line(TRUE, 10, 0),     \* a tweet of 10 characters
      Line(FALSE, 100, 0) }  \* a line that is no tweet

Statuses == {200, 429, 401, 403, 500}

VARIABLES
    OPENAI_API_KEYS,     \* the credential pool, in configuration order
    BLOCKED_KEYS,        \* the set of blocked credentials
    pc,                  \* where main() is
    channel,             \* index in SOURCE_CHANNELS of the channel being fetched
    iterated,            \* messages iter_messages has yielded for that channel
    messages,            \* fetch_recent_posts: its local list
    all_messages,        \* get_content_from_sources: its local list
    filtered_messages,   \* get_content_from_sources: its local list, sorted
    post,                \* the selected message, or None
    translated,          \* main(): what translate_to_arabic returned
    media_path,          \* main(): the downloaded file ("none": None)
    arabic_post,         \* main(): the Arabic post
    twitter_tweets,      \* main(): the thread
    success_ar,          \* main(): the result of the first publish
    success_en,          \* main(): the result of the second publish
    media_file,          \* the downloaded file on disk: absent, present, deleted
    publishes,           \* the publish attempts made, in order
    ret,                 \* what the transform function that last returned gave
    step,                \* in a transform function: "key" before
                         \* get_next_available_key, "post" before the response
    attempt,             \* the loop variable of the running transform function
    current_key,         \* its current_key (0: none)
    \* history variables
    fetched,             \* channels fetch_recent_posts has returned for
    failed,              \* channels whose fetch raised
    relaxed,             \* times get_content_from_sources relaxed the threshold
    resets,              \* times BLOCKED_KEYS.clear() ran
    calls,               \* POSTs the running transform function has issued
    total_calls,         \* POSTs to the transformation endpoint in this run
    call_failed,         \* one of them gave its function no text to return
    status,              \* status of the last response (0: the POST raised)
    body,                \* text of the last 200 response
    wait,                \* seconds slept after the last response
    connected,           \* client.start() done and client.disconnect() not yet
    result,              \* what main() returned ("running" until it returns)
    raw_content,         \* bot.py main(): what fetch_content() returned
    processed_content,   \* bot.py main(): what ai_translate_and_summarize returned
    sys_exit,            \* the argument of sys.exit at module level and in
                         \* bot.py's main() (-1: no such exit so far)
    missing,             \* the required setting the environment lacks, if any
    removes              \* times os.remove(media_path) was called

vars == << OPENAI_API_KEYS, BLOCKED_KEYS, pc, channel, iterated, messages,
           all_messages, filtered_messages, post, translated, media_path,
           arabic_post, twitter_tweets, success_ar, success_en, media_file,
           publishes, ret, step, attempt, current_key,
           fetched, failed, relaxed, resets, calls, total_calls, call_failed,
           status, body, wait, connected, result, raw_content, processed_content, sys_exit,
           missing, removes >>

sourceVars == << channel, iterated, messages, all_messages, filtered_messages,
                 post, fetched, failed, relaxed >>
poolVars == << OPENAI_API_KEYS, BLOCKED_KEYS, resets >>
callVars == << ret, step, attempt, current_key, calls, total_calls, call_failed,
              status, body, wait >>
mainVars == << translated, media_path, arabic_post, twitter_tweets, success_ar,
              success_en, media_file, publishes, connected, result >>
botVars == << raw_content, processed_content, sys_exit >>
processVars == << missing, removes >>

(* ------------------------------------------------------ credential pool *)
\* The pools a run can start with: OPENAI_API_KEY and the OPENAI_API_KEY_i
\* that are set, up to MaxKeys of them, all distinct or, nothing in the
\* configuration code excluding it, the last one equal to the first.
PoolConfigs ==
    { [i \in 1..n |-> i] : n \in 1..MaxKeys }
    \cup { [i \in 1..n |-> IF i = n THEN 1 ELSE i] : n \in 2..MaxKeys }

available_keys(keys, blocked) == SelectSeq(keys, LAMBDA key : key \notin blocked)

\* Faulty variants of get_next_available_key: the first key whatever is blocked; a
\* clear on every call; the last available key instead of the first.
get_next_available_key_ignores_blocked(keys, blocked) ==
    [key |-> keys[1], blocked |-> blocked, cleared |-> FALSE]

get_next_available_key_always_clears(keys, blocked) ==
    LET available == available_keys(keys, blocked)
    IN  [key |-> IF available = << >> THEN keys[1] ELSE available[1],
         blocked |-> {}, cleared |-> blocked # {}]

get_next_available_key_last(keys, blocked) ==
    LET available == available_keys(keys, blocked)
    IN  IF available = << >>
        THEN [key |-> keys[Len(keys)], blocked |-> {}, cleared |-> TRUE]
        ELSE [key |-> available[Len(available)], blocked |-> blocked,
              cleared |-> FALSE]

\* get_next_available_key(): the key it returns (0: None), BLOCKED_KEYS after
\* it, and whether it ran BLOCKED_KEYS.clear().
get_next_available_key(keys, blocked) ==
    LET available == available_keys(keys, blocked)
    IN  IF available = << >>
        THEN [key |-> IF keys # << >> THEN keys[1] ELSE 0,
              blocked |-> {}, cleared |-> TRUE]
        ELSE [key |-> available[1], blocked |-> blocked, cleared |-> FALSE]

\* A faulty variant of mark_key_as_blocked: the key is not recorded.
mark_key_as_blocked_forgets(blocked, api_key) == blocked

\* mark_key_as_blocked(api_key): BLOCKED_KEYS after it.
mark_key_as_blocked(blocked, api_key) ==
    IF api_key # 0 THEN blocked \cup {api_key} ELSE blocked

(* -------------------------------------------------------- source reader *)
\* The test of fetch_recent_posts on one message.
keeps(message) ==
    \/ message.len > 0 /\ message.len >= MIN_CONTENT_LENGTH
    \/ message.media /\ message.len > 0

\* A faulty variant of filter_messages: a message with media passes
\* whatever the length of its text, as in fetch_recent_posts.
filter_messages_keeps_media(msgs, threshold) ==
    SelectSeq(msgs, LAMBDA msg : msg.len > 0 /\ (msg.slen >= threshold
                                                  \/ msg.media))

\* A faulty variant of filter_messages: any message with text passes.
filter_messages_any_length(msgs, threshold) ==
    SelectSeq(msgs, LAMBDA msg : msg.len > 0)

\* The list comprehension of get_content_from_sources for one threshold.
filter_messages(msgs, threshold) ==
    SelectSeq(msgs, LAMBDA msg : msg.len > 0 /\ msg.slen >= threshold)

\* A faulty variant of relax_and_filter: the threshold is never relaxed.
relax_and_filter_strict_only(msgs) ==
    [msgs |-> filter_messages(msgs, MIN_CONTENT_LENGTH), relaxed |-> 0]

\* The filtering of get_content_from_sources: the strict threshold, then, when
\* nothing passes it, half of it.
relax_and_filter(msgs) ==
    LET strict == filter_messages(msgs, MIN_CONTENT_LENGTH)
    IN  IF strict # << >>
        THEN [msgs |-> strict, relaxed |-> 0]
        ELSE [msgs |-> filter_messages(msgs, MIN_CONTENT_LENGTH \div 2),
              relaxed |-> 1]

\* list.sort(key=len(m.text), reverse=True): stable, longest first.
InsertByLength(sorted, msg) ==
    LET k == Cardinality({ i \in 1..Len(sorted) : sorted[i].len >= msg.len })
    IN  SubSeq(sorted, 1, k) \o << msg >> \o SubSeq(sorted, k + 1, Len(sorted))

RECURSIVE sort_by_length(_)
sort_by_length(msgs) ==
    IF msgs = << >> THEN << >>
    ELSE InsertByLength(sort_by_length(SubSeq(msgs, 1, Len(msgs) - 1)),
                        msgs[Len(msgs)])

\* A faulty variant of top_candidates: the top half.
top_candidates_half(sorted) == SubSeq(sorted, 1, Max(1, Len(sorted) \div 2))

top_candidates(sorted) == SubSeq(sorted, 1, Max(1, Len(sorted) \div 3))

\* detect_language(text) on the text of a message.
detect_language(msg) ==
    LET total_alpha == msg.arabic + msg.latin + msg.cyrillic
    IN  IF total_alpha = 0 THEN "unknown"
        ELSE IF 2 * msg.arabic > total_alpha THEN "arabic"
        ELSE IF msg.cyrillic > msg.latin THEN "russian"
        ELSE "other"

(* ------------------------------------------------------------- Init *)
Init ==
    \* bot_advanced.py with its pool, or bot.py with its one OPENAI_API_KEY;
    \* the environment is complete, or lacks one of the required settings
    /\ \/ /\ pc = "validation"
          /\ missing \in {"nothing", "telegram", "openai", "sources"}
          /\ IF missing = "openai" THEN OPENAI_API_KEYS = << >>
             ELSE OPENAI_API_KEYS \in PoolConfigs
       \/ /\ pc = "bot.validation"
          /\ missing \in {"nothing", "required"}
          /\ OPENAI_API_KEYS = IF missing = "required" THEN << >> ELSE << 1 >>
    /\ removes = 0
    /\ BLOCKED_KEYS = {}
    /\ raw_content = None
    /\ processed_content = None
    /\ sys_exit = -1
    /\ channel = 0
    /\ iterated = 0
    /\ messages = << >>
    /\ all_messages = << >>
    /\ filtered_messages = << >>
    /\ post = None
    /\ translated = None
    /\ media_path = "none"
    /\ arabic_post = None
    /\ twitter_tweets = None
    /\ success_ar = "unset"
    /\ success_en = "unset"
    /\ media_file = "absent"
    /\ publishes = << >>
    /\ ret = None
    /\ step = "idle"
    /\ attempt = 0
    /\ current_key = 0
    /\ fetched = {}
    /\ failed = {}
    /\ relaxed = 0
    /\ resets = 0
    /\ calls = 0
    /\ total_calls = 0
    /\ call_failed = FALSE
    /\ status = 0
    /\ body = None
    /\ wait = 0
    /\ connected = FALSE
    /\ result = "running"

(* ------------------------------------------------- module-level checks *)
\* A faulty variant of validation: the check of OPENAI_API_KEYS is absent.
validation_without_keys_check ==
    /\ pc = "validation"
    /\ IF missing \in {"telegram", "sources"}
       THEN sys_exit' = 1 /\ pc' = "done"
       ELSE pc' = "start" /\ UNCHANGED sys_exit
    /\ UNCHANGED << raw_content, processed_content >>
    /\ UNCHANGED << sourceVars, poolVars, callVars, mainVars, processVars >>

\* A faulty variant of validation: missing SOURCE_CHANNELS are only logged.
validation_warns_about_sources ==
    /\ pc = "validation"
    /\ IF missing \in {"telegram", "openai"}
       THEN sys_exit' = 1 /\ pc' = "done"
       ELSE pc' = "start" /\ UNCHANGED sys_exit
    /\ UNCHANGED << raw_content, processed_content >>
    /\ UNCHANGED << sourceVars, poolVars, callVars, mainVars, processVars >>

\* bot_advanced.py: the three checks of the configuration; sys.exit(1) when
\* a required setting is missing, main() otherwise.
validation ==
    /\ pc = "validation"
    /\ IF missing # "nothing"
       THEN sys_exit' = 1 /\ pc' = "done"
       ELSE pc' = "start" /\ UNCHANGED sys_exit
    /\ UNCHANGED << raw_content, processed_content >>
    /\ UNCHANGED << sourceVars, poolVars, callVars, mainVars, processVars >>

\* bot.py: `if not all([TELEGRAM_TOKEN, TELEGRAM_CHANNEL, OPENAI_API_KEY])`.
bot_validation ==
    /\ pc = "bot.validation"
    /\ IF missing # "nothing"
       THEN sys_exit' = 1 /\ pc' = "done"
       ELSE pc' = "bot.start" /\ UNCHANGED sys_exit
    /\ UNCHANGED << raw_content, processed_content >>
    /\ UNCHANGED << sourceVars, poolVars, callVars, mainVars, processVars >>

(* ------------------------------------------------ main(): start, fetch *)
\* await client.start(), then the first fetch_recent_posts call.
main_start ==
    /\ pc = "start"
    /\ pc' = "fetch"
    /\ connected' = TRUE
    /\ channel' = 1
    /\ UNCHANGED << iterated, messages, all_messages, filtered_messages, post,
                    fetched, failed, relaxed >>
    /\ UNCHANGED << translated, media_path, arabic_post, twitter_tweets,
                    success_ar, success_en, media_file, publishes, result >>
    /\ UNCHANGED << poolVars, callVars >>
    /\ UNCHANGED botVars
    /\ UNCHANGED processVars

\* client.start() raises: main()'s except handler runs.
main_start_raises ==
    /\ pc = "start"
    /\ pc' = "fatal"
    /\ UNCHANGED << sourceVars, poolVars, callVars, mainVars >>
    /\ UNCHANGED botVars
    /\ UNCHANGED processVars

\* One message of client.iter_messages(channel, limit) in fetch_recent_posts.
fetch_recent_posts_iter ==
    /\ pc = "fetch"
    /\ iterated < POSTS_LIMIT
    /\ \E message \in MessageSamples :
          messages' = IF keeps(message) THEN Append(messages, message)
                      ELSE messages
    /\ iterated' = iterated + 1
    /\ UNCHANGED << pc, channel, all_messages, filtered_messages, post, fetched,
                    failed, relaxed >>
    /\ UNCHANGED mainVars
    /\ UNCHANGED << poolVars, callVars >>
    /\ UNCHANGED botVars
    /\ UNCHANGED processVars

\* fetch_recent_posts returns its list to the loop of get_content_from_sources,
\* which extends all_messages and goes to the next channel.
next_channel ==
    /\ all_messages' = all_messages \o messages
    /\ fetched' = fetched \cup {channel}
    /\ messages' = << >>
    /\ iterated' = 0
    /\ IF channel < NumChannels
       THEN channel' = channel + 1 /\ pc' = "fetch"
       ELSE channel' = channel /\ pc' = "select"

\* The iteration ends: fetch_recent_posts returns.
fetch_recent_posts_return ==
    /\ pc = "fetch"
    /\ next_channel
    /\ UNCHANGED << filtered_messages, post, failed, relaxed >>
    /\ UNCHANGED mainVars
    /\ UNCHANGED << poolVars, callVars >>
    /\ UNCHANGED botVars
    /\ UNCHANGED processVars

\* A faulty variant of fetch_recent_posts_except: the exception reaches main().
fetch_recent_posts_except_propagates ==
    /\ pc = "fetch"
    /\ failed' = failed \cup {channel}
    /\ pc' = "fatal"
    /\ UNCHANGED << channel, iterated, messages, all_messages, filtered_messages,
                    post, fetched, relaxed >>
    /\ UNCHANGED << mainVars, poolVars, callVars >>
    /\ UNCHANGED botVars
    /\ UNCHANGED processVars

\* A faulty variant of fetch_recent_posts_except: the except clause returns
\* an empty list.
fetch_recent_posts_except_returns_nothing ==
    /\ pc = "fetch"
    /\ failed' = failed \cup {channel}
    /\ fetched' = fetched \cup {channel}
    /\ messages' = << >>
    /\ iterated' = 0
    /\ IF channel < NumChannels
       THEN channel' = channel + 1 /\ pc' = "fetch"
       ELSE channel' = channel /\ pc' = "select"
    /\ UNCHANGED << all_messages, filtered_messages, post, relaxed >>
    /\ UNCHANGED mainVars
    /\ UNCHANGED << poolVars, callVars >>
    /\ UNCHANGED botVars
    /\ UNCHANGED processVars

\* The iteration raises: the except clause logs, fetch_recent_posts returns.
fetch_recent_posts_except ==
    /\ pc = "fetch"
    /\ failed' = failed \cup {channel}
    /\ next_channel
    /\ UNCHANGED << filtered_messages, post, relaxed >>
    /\ UNCHANGED mainVars
    /\ UNCHANGED << poolVars, callVars >>
    /\ UNCHANGED botVars
    /\ UNCHANGED processVars

\* get_content_from_sources after its loop: filter, sort, choose.
get_content_from_sources ==
    /\ pc = "select"
    /\ pc' = "main_post"
    /\ IF all_messages = << >>
       THEN /\ post' = None
            /\ UNCHANGED << filtered_messages, relaxed >>
       ELSE LET kept == relax_and_filter(all_messages)
                sorted == sort_by_length(kept.msgs)
            IN  /\ relaxed' = kept.relaxed
                /\ filtered_messages' = sorted
                /\ IF sorted = << >>
                   THEN post' = None
                   ELSE \E i \in 1..Len(top_candidates(sorted)) :
                            post' = top_candidates(sorted)[i]
    /\ UNCHANGED << channel, iterated, messages, all_messages, fetched, failed >>
    /\ UNCHANGED mainVars
    /\ UNCHANGED << poolVars, callVars >>
    /\ UNCHANGED botVars
    /\ UNCHANGED processVars

\* get_content_from_sources has chosen a message whose chat is not known
\* (selected.chat is None): `selected.chat.username` raises, and the
\* exception reaches the except clause of main().
get_content_from_sources_raises ==
    /\ pc = "select"
    /\ all_messages # << >>
    /\ relax_and_filter(all_messages).msgs # << >>
    /\ pc' = "fatal"
    /\ all_messages' = << >>
    /\ filtered_messages' = << >>
    /\ channel' = 0
    /\ fetched' = {}
    /\ failed' = {}
    /\ relaxed' = 0
    /\ UNCHANGED << iterated, messages, post >>
    /\ UNCHANGED mainVars
    /\ UNCHANGED << poolVars, callVars >>
    /\ UNCHANGED botVars
    /\ UNCHANGED processVars

(* -------------------------------------------------- transform functions *)
TransformFunctions ==
    { "translate_to_arabic", "generate_arabic_post",
      "generate_english_twitter_thread", "translate_to_english" }

max_retries(function) ==
    CASE function = "translate_to_arabic" -> translate_to_arabic_max_retries
      [] function = "translate_to_english" -> translate_to_english_max_retries
      [] function = "generate_arabic_post" -> generate_arabic_post_max_retries
      [] function = "generate_english_twitter_thread" ->
             generate_english_twitter_thread_max_retries
      [] function = "ai_translate_and_summarize" ->
             ai_translate_and_summarize_max_retries
      [] function = "bot.send_to_telegram" -> bot_send_to_telegram_max_retries

\* main(): original_text = post.text.strip()
original_text == Text(post.slen, post.arabic, post.arabic + post.latin)

\* main(): arabic_text, the translation when there is one
arabic_text == IF translated # None THEN translated ELSE original_text

\* The text main() hands to the transform function it is calling.
input_text == IF pc = "generate_arabic_post" THEN arabic_text ELSE original_text

\* The check of translate_to_arabic on a 200 response.
translation_is_arabic(text) == text.alpha > 0 /\ 2 * text.arabic > text.alpha

\* A faulty variant of post_is_arabic: the length is not checked.
post_is_arabic_any_length(text) ==
    text.alpha > 0 /\ 10 * text.arabic > 6 * text.alpha

\* The check of generate_arabic_post on a 200 response.
post_is_arabic(text) ==
    text.alpha > 0 /\ 10 * text.arabic > 6 * text.alpha /\ text.len > 300

\* The check of translate_to_english on a 200 response.
translation_is_english(text) == text.arabic = 0 /\ text.len > 20

\* The status on which a transform function blocks its credential.
is_rate_limit(code) == code = 429

\* A faulty variant of continue_after_rate_limit: the same attempt is made again.
continue_after_rate_limit_retries(n) == n

\* `continue` after a rate-limit response, in `for attempt in range(1,
\* max_retries + 1)`: the loop goes to its next attempt.
continue_after_rate_limit(n) == n + 1

\* A faulty variant of parse_tweets: a tweet over the cap is kept as it is.
RECURSIVE parse_tweets_without_cap(_)
parse_tweets_without_cap(lines) ==
    IF lines = << >> THEN << >>
    ELSE LET line == Head(lines)
             content == [len |-> line.len, arabic |-> line.arabic]
             rest == parse_tweets_without_cap(Tail(lines))
         IN  IF line.tweet /\ line.arabic = 0 /\ content.len > 10
             THEN << content >> \o rest
             ELSE rest

\* The parsing loop of generate_english_twitter_thread over the lines of a
\* response: the tweets it keeps, as [len, arabic].
RECURSIVE parse_tweets(_)
parse_tweets(lines) ==
    IF lines = << >> THEN << >>
    ELSE LET line == Head(lines)
             content == IF line.len > TWEET_CAP
                        THEN [len |-> 277 + 3, arabic |-> line.arabic]
                        ELSE [len |-> line.len, arabic |-> line.arabic]
             rest == parse_tweets(Tail(lines))
         IN  IF line.tweet /\ line.arabic = 0 /\ content.len > 10
             THEN << content >> \o rest
             ELSE rest

RECURSIVE sum_arabic(_)
sum_arabic(tweets) ==
    IF tweets = << >> THEN 0 ELSE Head(tweets).arabic + sum_arabic(Tail(tweets))

\* The responses of the thread prompt: up to MaxLines lines.
ThreadSamples == UNION { [1..n -> LineSamples] : n \in 0..MaxLines }

\* What the parsing loop makes of these responses.
ParsedThreadSamples == { parse_tweets(lines) : lines \in ThreadSamples }

\* main() calls a transform function: its loop starts.
call_transform ==
    /\ step' = "key"
    /\ attempt' = 1
    /\ current_key' = 0
    /\ calls' = 0
    /\ ret' = None
    /\ status' = 0
    /\ body' = None
    /\ wait' = 0
    /\ UNCHANGED << total_calls, call_failed >>

\* main() has taken the value a transform function returned: the frame of
\* the call is gone.
end_transform ==
    /\ step' = "idle"
    /\ attempt' = 0
    /\ current_key' = 0
    /\ calls' = 0
    /\ ret' = None
    /\ status' = 0
    /\ body' = None
    /\ wait' = 0
    /\ UNCHANGED << total_calls, call_failed >>

\* The transform function returns value.
return(value) ==
    /\ step' = "returned"
    /\ ret' = value
    /\ attempt' = attempt

\* A faulty variant of end_of_attempt: the loop runs once more than
\* max_retries.
end_of_attempt_one_more(next) ==
    IF next <= max_retries(pc) + 1
    THEN step' = "key" /\ attempt' = next /\ ret' = ret
    ELSE return(None)

\* The end of one iteration of `for attempt in range(1, max_retries + 1)` that
\* did not return: attempt next, or the loop is over and the function
\* returns None.
end_of_attempt(next) ==
    IF next <= max_retries(pc)
    THEN step' = "key" /\ attempt' = next /\ ret' = ret
    ELSE return(None)

\* The top of the loop: current_key = get_next_available_key(), then the POST.
acquire_key ==
    /\ pc \in TransformFunctions
    /\ step = "key"
    /\ LET got == get_next_available_key(OPENAI_API_KEYS, BLOCKED_KEYS)
       IN  /\ current_key' = got.key
           /\ BLOCKED_KEYS' = got.blocked
           /\ resets' = IF got.cleared THEN resets + 1 ELSE resets
           /\ IF got.key = 0
              THEN /\ return(None)
                   /\ UNCHANGED << calls, total_calls >>
              ELSE /\ step' = "post"
                   /\ calls' = calls + 1
                   /\ total_calls' = total_calls + 1
                   /\ UNCHANGED << ret, attempt >>
    /\ UNCHANGED << OPENAI_API_KEYS, pc, call_failed, status, body, wait >>
    /\ UNCHANGED << sourceVars, mainVars >>
    /\ UNCHANGED botVars
    /\ UNCHANGED processVars

\* A faulty variant of post_raises: the except clause blocks the credential.
post_raises_blocks_key(backoff) ==
    /\ status' = 0
    /\ body' = None
    /\ wait' = IF attempt < max_retries(pc) THEN backoff ELSE 0
    /\ end_of_attempt(attempt + 1)
    /\ call_failed' = TRUE
    /\ BLOCKED_KEYS' = mark_key_as_blocked(BLOCKED_KEYS, current_key)

\* requests.post raised (or the response could not be decoded): the except
\* clause logs and the attempt ends.
post_raises(backoff) ==
    /\ status' = 0
    /\ body' = None
    /\ wait' = IF attempt < max_retries(pc) THEN backoff ELSE 0
    /\ end_of_attempt(attempt + 1)
    /\ call_failed' = TRUE
    /\ UNCHANGED << BLOCKED_KEYS >>

\* A faulty variant of other_status: the sleep is made after the last
\* attempt too.
other_status_always_waits(backoff) ==
    /\ \E code \in Statuses : code # 200 /\ ~is_rate_limit(code) /\ status' = code
    /\ body' = None
    /\ wait' = backoff
    /\ end_of_attempt(attempt + 1)
    /\ call_failed' = TRUE
    /\ UNCHANGED << BLOCKED_KEYS >>

\* A status that is neither 200 nor the rate limit: logged, the attempt ends.
other_status(backoff) ==
    /\ \E code \in Statuses : code # 200 /\ ~is_rate_limit(code) /\ status' = code
    /\ body' = None
    /\ wait' = IF attempt < max_retries(pc) THEN backoff ELSE 0
    /\ end_of_attempt(attempt + 1)
    /\ call_failed' = TRUE
    /\ UNCHANGED << BLOCKED_KEYS >>

\* The rate-limit branch of generate_arabic_post, translate_to_english and
\* generate_english_twitter_thread: block the key, sleep 2, continue.
rate_limited ==
    /\ \E code \in Statuses : is_rate_limit(code) /\ status' = code
    /\ body' = None
    /\ BLOCKED_KEYS' = mark_key_as_blocked(BLOCKED_KEYS, current_key)
    /\ wait' = 2
    /\ end_of_attempt(continue_after_rate_limit(attempt))
    /\ call_failed' = TRUE

\* A 200 response whose text the function rejects.
rejected(text, delay, backoff) ==
    /\ wait' = IF attempt < max_retries(pc)
               THEN (IF text.alpha > 0 THEN delay ELSE backoff) ELSE 0
    /\ end_of_attempt(attempt + 1)
    /\ call_failed' = TRUE

responseFrame ==
    /\ UNCHANGED << OPENAI_API_KEYS, resets, pc, current_key, calls, total_calls >>
    /\ UNCHANGED << sourceVars, mainVars >>

translate_to_arabic ==
    /\ pc = "translate_to_arabic"
    /\ step = "post"
    /\ \/ post_raises(3)
       \/ \E text \in ArabicTranslationSamples :
            /\ status' = 200
            /\ body' = text
            /\ UNCHANGED << BLOCKED_KEYS >>
            /\ IF translation_is_arabic(text)
               THEN return(text) /\ wait' = 0 /\ UNCHANGED call_failed
               ELSE rejected(text, 2, 3)
       \/ /\ \E code \in Statuses : is_rate_limit(code) /\ status' = code
          /\ body' = None
          /\ BLOCKED_KEYS' = mark_key_as_blocked(BLOCKED_KEYS, current_key)
          /\ call_failed' = TRUE
          /\ IF Cardinality(BLOCKED_KEYS') >= Len(OPENAI_API_KEYS)
             THEN return(None) /\ wait' = 0
             ELSE /\ wait' = 2
                  /\ end_of_attempt(continue_after_rate_limit(attempt))
       \/ other_status(3)
    /\ responseFrame
    /\ UNCHANGED botVars
    /\ UNCHANGED processVars

generate_arabic_post ==
    /\ pc = "generate_arabic_post"
    /\ step = "post"
    /\ \/ post_raises(5)
       \/ \E text \in ArabicPostSamples :
            /\ status' = 200
            /\ body' = text
            /\ UNCHANGED << BLOCKED_KEYS >>
            /\ IF post_is_arabic(text)
               THEN return(text) /\ wait' = 0 /\ UNCHANGED call_failed
               ELSE rejected(text, 3, 5)
       \/ rate_limited
       \/ other_status(5)
    /\ responseFrame
    /\ UNCHANGED botVars
    /\ UNCHANGED processVars

translate_to_english ==
    /\ pc = "translate_to_english"
    /\ step = "post"
    /\ \/ post_raises(3)
       \/ \E text \in EnglishSamples :
            /\ status' = 200
            /\ body' = text
            /\ UNCHANGED << BLOCKED_KEYS >>
            /\ IF translation_is_english(text)
               THEN return(text) /\ wait' = 0 /\ UNCHANGED call_failed
               ELSE /\ wait' = IF attempt < max_retries(pc) THEN 2 ELSE 0
                    /\ end_of_attempt(attempt + 1)
                    /\ call_failed' = TRUE
       \/ rate_limited
       \/ other_status(3)
    /\ responseFrame
    /\ UNCHANGED botVars
    /\ UNCHANGED processVars

\* A faulty variant of generate_english_twitter_thread: one clean tweet is
\* enough for a thread.
generate_english_twitter_thread_any_count ==
    /\ pc = "generate_english_twitter_thread"
    /\ step = "post"
    /\ \/ post_raises(5)
       \/ \E tweets \in ParsedThreadSamples :
            /\ status' = 200
            /\ body' = [tweets |-> tweets]
            /\ UNCHANGED << BLOCKED_KEYS >>
            /\ IF Len(tweets) >= 1
               THEN IF sum_arabic(tweets) > 0
                    THEN /\ wait' = IF attempt < max_retries(pc) THEN 4 ELSE 0
                         /\ end_of_attempt(attempt + 1)
                         /\ call_failed' = TRUE
                    ELSE /\ return([tweets |-> tweets])
                         /\ wait' = 0
                         /\ UNCHANGED call_failed
               ELSE /\ wait' = IF attempt < max_retries(pc) THEN 4 ELSE 0
                    /\ end_of_attempt(attempt + 1)
                    /\ call_failed' = TRUE
       \/ rate_limited
       \/ other_status(5)
    /\ responseFrame
    /\ UNCHANGED botVars
    /\ UNCHANGED processVars

generate_english_twitter_thread ==
    /\ pc = "generate_english_twitter_thread"
    /\ step = "post"
    /\ \/ post_raises(5)
       \/ \E tweets \in ParsedThreadSamples :
            /\ status' = 200
            /\ body' = [tweets |-> tweets]
            /\ UNCHANGED << BLOCKED_KEYS >>
            /\ IF Len(tweets) >= MIN_TWEETS
               THEN IF sum_arabic(tweets) > 0
                    THEN /\ wait' = IF attempt < max_retries(pc) THEN 4 ELSE 0
                         /\ end_of_attempt(attempt + 1)
                         /\ call_failed' = TRUE
                    ELSE /\ return([tweets |-> tweets])
                         /\ wait' = 0
                         /\ UNCHANGED call_failed
               ELSE /\ wait' = IF attempt < max_retries(pc) THEN 4 ELSE 0
                    /\ end_of_attempt(attempt + 1)
                    /\ call_failed' = TRUE
       \/ rate_limited
       \/ other_status(5)
    /\ responseFrame
    /\ UNCHANGED botVars
    /\ UNCHANGED processVars

(* ------------------------------------------- main(): between the calls *)
\* The fallback post main() builds around arabic_text when the generation
\* failed: the template adds 117 characters, 63 of them Arabic.
fallback_post(text) == Text(text.len + 117, text.arabic + 63, text.alpha + 87)

\* The emergency post: the template adds 38 characters, 17 of them Arabic.
emergency_post(text) == Text(text.len + 38, text.arabic + 17, text.alpha + 23)

\* arabic_final = arabic_post + timestamp ("\n\n", a clock, 20 characters).
arabic_final == Text(arabic_post.len + 24, arabic_post.arabic, arabic_post.alpha + 3)

digits(n) == IF n < 10 THEN 1 ELSE IF n < 100 THEN 2 ELSE IF n < 1000 THEN 3 ELSE 4

\* len(format_twitter_thread(tweets)), for fewer than 10 tweets.
RECURSIVE formatted_tweets_length(_, _, _)
formatted_tweets_length(tweets, i, n) ==
    IF i > n THEN 0
    ELSE (8 + digits(i) + 1 + digits(n) + 2 + digits(tweets[i].len) + 8 + 1 + 1)
         + (tweets[i].len + 1) + 62
         + formatted_tweets_length(tweets, i + 1, n)

format_twitter_thread(tweets) ==
    IF tweets = << >> THEN 0
    ELSE 45 + 62 + formatted_tweets_length(tweets, 1, Len(tweets)) + 114

Tweet(l) == [len |-> l, arabic |-> 0]

\* A faulty variant of translated_thread: the translation is not cut.
translated_thread_uncut(english) ==
    << Tweet(18), Tweet(english.len), Tweet(46) >>

\* The thread main() builds from translate_to_english's translation.
translated_thread(english) ==
    << Tweet(18), Tweet(IF english.len <= 270 THEN english.len ELSE 267 + 3),
       Tweet(46) >>

\* The canned thread of main().
emergency_thread == << Tweet(21), Tweet(106), Tweet(78), Tweet(53) >>

\* A faulty variant of disconnect_and_fail: main() returns True.
disconnect_and_succeed ==
    /\ connected' = FALSE
    /\ result' = "True"
    /\ pc' = "done"

\* main() returns False after client.disconnect().
disconnect_and_fail ==
    /\ connected' = FALSE
    /\ result' = "False"
    /\ pc' = "done"

\* A faulty variant of main_post: translate_to_arabic is called for an
\* Arabic text too.
main_post_always_translates ==
    /\ pc = "main_post"
    /\ all_messages' = << >>
    /\ filtered_messages' = << >>
    /\ IF post = None
       THEN /\ disconnect_and_fail
            /\ UNCHANGED callVars
       ELSE /\ pc' = "translate_to_arabic"
            /\ call_transform
            /\ UNCHANGED << connected, result >>
    /\ channel' = 0
    /\ fetched' = {}
    /\ failed' = {}
    /\ relaxed' = 0
    /\ UNCHANGED << iterated, messages, post >>
    /\ UNCHANGED << translated, media_path, arabic_post, twitter_tweets,
                    success_ar, success_en, media_file, publishes >>
    /\ UNCHANGED poolVars
    /\ UNCHANGED botVars
    /\ UNCHANGED processVars

\* get_content_from_sources returned: no post, or detect_language and, for a
\* text that is not Arabic, the call of translate_to_arabic.
main_post ==
    /\ pc = "main_post"
    /\ all_messages' = << >>
    /\ filtered_messages' = << >>
    /\ IF post = None
       THEN /\ disconnect_and_fail
            /\ UNCHANGED callVars
       ELSE /\ IF detect_language(post) # "arabic"
               THEN pc' = "translate_to_arabic" /\ call_transform
               ELSE pc' = "media" /\ UNCHANGED callVars
            /\ UNCHANGED << connected, result >>
    /\ channel' = 0
    /\ fetched' = {}
    /\ failed' = {}
    /\ relaxed' = 0
    /\ UNCHANGED << iterated, messages, post >>
    /\ UNCHANGED << translated, media_path, arabic_post, twitter_tweets,
                    success_ar, success_en, media_file, publishes >>
    /\ UNCHANGED poolVars
    /\ UNCHANGED botVars
    /\ UNCHANGED processVars

\* A faulty variant of main_translated: the sources are read again after
\* the translation.
main_translated_fetches_again ==
    /\ pc = "translate_to_arabic"
    /\ step = "returned"
    /\ translated' = ret
    /\ pc' = "fetch"
    /\ channel' = 1
    /\ end_transform
    /\ UNCHANGED << media_path, arabic_post, twitter_tweets, success_ar,
                    success_en, media_file, publishes, connected, result >>
    /\ UNCHANGED << iterated, messages, all_messages, filtered_messages, post,
                    fetched, failed, relaxed >>
    /\ UNCHANGED << poolVars, botVars, processVars >>

\* translate_to_arabic returned: arabic_text is the translation, if any.
main_translated ==
    /\ pc = "translate_to_arabic"
    /\ step = "returned"
    /\ translated' = ret
    /\ pc' = "media"
    /\ end_transform
    /\ UNCHANGED << media_path, arabic_post, twitter_tweets, success_ar,
                    success_en, media_file, publishes, connected, result >>
    /\ UNCHANGED << sourceVars, poolVars >>
    /\ UNCHANGED botVars
    /\ UNCHANGED processVars

\* The download of the post's media, then the call of generate_arabic_post.
main_media ==
    /\ pc = "media"
    /\ \/ /\ post.media
          /\ media_path' = "file"
          /\ media_file' = "present"
       \/ /\ post.media
          /\ media_path' = "none"
          /\ UNCHANGED media_file
       \/ /\ ~post.media
          /\ UNCHANGED << media_path, media_file >>
    /\ pc' = "generate_arabic_post"
    /\ call_transform
    /\ UNCHANGED << translated, arabic_post, twitter_tweets, success_ar,
                    success_en, publishes, connected, result >>
    /\ UNCHANGED << sourceVars, poolVars >>
    /\ UNCHANGED botVars
    /\ UNCHANGED processVars

\* A faulty variant of main_arabic_post: main() gives up when
\* generate_arabic_post returned nothing.
main_arabic_post_aborts ==
    /\ pc = "generate_arabic_post"
    /\ step = "returned"
    /\ LET first == IF ret = None \/ ret.len < 100
                    THEN fallback_post(arabic_text) ELSE ret
       IN  IF ret = None \/ (first.arabic < 50 /\ arabic_text.arabic = 0)
           THEN /\ arabic_post' = first
                /\ disconnect_and_fail
                /\ UNCHANGED callVars
           ELSE /\ arabic_post' = IF first.arabic < 50
                                  THEN emergency_post(arabic_text) ELSE first
                /\ pc' = "generate_english_twitter_thread"
                /\ call_transform
                /\ UNCHANGED << connected, result >>
    /\ UNCHANGED << translated, media_path, twitter_tweets, success_ar,
                    success_en, media_file, publishes >>
    /\ UNCHANGED << sourceVars, poolVars >>
    /\ UNCHANGED botVars
    /\ UNCHANGED processVars

\* generate_arabic_post returned: the fallback post, the check for Arabic
\* content, then the call of generate_english_twitter_thread.
main_arabic_post ==
    /\ pc = "generate_arabic_post"
    /\ step = "returned"
    /\ LET first == IF ret = None \/ ret.len < 100
                    THEN fallback_post(arabic_text) ELSE ret
       IN  IF first.arabic < 50 /\ arabic_text.arabic = 0
           THEN /\ arabic_post' = first
                /\ disconnect_and_fail
                /\ UNCHANGED callVars
           ELSE /\ arabic_post' = IF first.arabic < 50
                                  THEN emergency_post(arabic_text) ELSE first
                /\ pc' = "generate_english_twitter_thread"
                /\ call_transform
                /\ UNCHANGED << connected, result >>
    /\ UNCHANGED << translated, media_path, twitter_tweets, success_ar,
                    success_en, media_file, publishes >>
    /\ UNCHANGED << sourceVars, poolVars >>
    /\ UNCHANGED botVars
    /\ UNCHANGED processVars

\* generate_english_twitter_thread returned: the thread, or the call of
\* translate_to_english.
main_thread ==
    /\ pc = "generate_english_twitter_thread"
    /\ step = "returned"
    /\ IF ret = None
       THEN /\ pc' = "translate_to_english"
            /\ call_transform
            /\ UNCHANGED twitter_tweets
       ELSE /\ twitter_tweets' = ret
            /\ pc' = "final_check"
            /\ end_transform
    /\ UNCHANGED << translated, media_path, arabic_post, success_ar, success_en,
                    media_file, publishes, connected, result >>
    /\ UNCHANGED << sourceVars, poolVars >>
    /\ UNCHANGED botVars
    /\ UNCHANGED processVars

\* translate_to_english returned: the thread built from the translation, or
\* the canned one.
main_translated_english ==
    /\ pc = "translate_to_english"
    /\ step = "returned"
    /\ twitter_tweets' = IF ret # None
                         THEN [tweets |-> translated_thread(ret)]
                         ELSE [tweets |-> emergency_thread]
    /\ pc' = "final_check"
    /\ end_transform
    /\ UNCHANGED << translated, media_path, arabic_post, success_ar, success_en,
                    media_file, publishes, connected, result >>
    /\ UNCHANGED << sourceVars, poolVars >>
    /\ UNCHANGED botVars
    /\ UNCHANGED processVars

\* format_twitter_thread and the last checks before publishing.
main_final_check ==
    /\ pc = "final_check"
    /\ IF \/ arabic_final.len < 50
          \/ format_twitter_thread(twitter_tweets.tweets) < 50
       THEN disconnect_and_fail
       ELSE pc' = "publish_ar" /\ UNCHANGED << connected, result >>
    /\ UNCHANGED << translated, media_path, arabic_post, twitter_tweets,
                    success_ar, success_en, media_file, publishes >>
    /\ UNCHANGED << sourceVars, poolVars, callVars >>
    /\ UNCHANGED botVars
    /\ UNCHANGED processVars

(* ------------------------------------------------------------ publisher *)
\* send_to_telegram(message, media_path, label): one attempt, with the file
\* when there is one; True, or False when the attempt raised.
send_to_telegram(target, path, success) ==
    /\ publishes' = Append(publishes,
                           [target |-> target,
                            media |-> (path = "file" /\ media_file = "present"),
                            ok |-> success])

\* A faulty variant of main_publish_ar: the English text is asked for only
\* after the Arabic post is out.
main_publish_ar_then_translates ==
    /\ pc = "publish_ar"
    /\ \E success \in BOOLEAN :
          /\ send_to_telegram("ar", media_path, success)
          /\ success_ar' = IF success THEN "True" ELSE "False"
    /\ pc' = "translate_to_english"
    /\ call_transform
    /\ UNCHANGED << translated, media_path, arabic_post, twitter_tweets,
                    success_en, media_file, connected, result >>
    /\ UNCHANGED << sourceVars, poolVars, botVars, processVars >>

\* A faulty variant of main_publish_ar: a failed attempt with the file is
\* followed by a second attempt without it.
main_publish_ar_retries_text_only ==
    /\ pc = "publish_ar"
    /\ \E success \in BOOLEAN, again \in BOOLEAN :
          LET first == [target |-> "ar",
                        media |-> (media_path = "file" /\ media_file = "present"),
                        ok |-> success]
              second == [target |-> "ar", media |-> FALSE, ok |-> again]
          IN  IF first.media /\ ~success
              THEN /\ publishes' = publishes \o << first, second >>
                   /\ success_ar' = IF again THEN "True" ELSE "False"
              ELSE /\ publishes' = Append(publishes, first)
                   /\ success_ar' = IF success THEN "True" ELSE "False"
    /\ pc' = "publish_en"
    /\ UNCHANGED << translated, media_path, arabic_post, twitter_tweets,
                    success_en, media_file, connected, result >>
    /\ UNCHANGED << sourceVars, poolVars, callVars, botVars, processVars >>

\* A faulty variant of main_publish_ar: after a failed first publish the
\* second one is given up.
main_publish_ar_gives_up ==
    /\ pc = "publish_ar"
    /\ \E success \in BOOLEAN :
          /\ send_to_telegram("ar", media_path, success)
          /\ success_ar' = IF success THEN "True" ELSE "False"
          /\ pc' = IF success THEN "publish_en" ELSE "cleanup"
    /\ UNCHANGED << translated, media_path, arabic_post, twitter_tweets,
                    success_en, media_file, connected, result >>
    /\ UNCHANGED << sourceVars, poolVars, callVars, botVars, processVars >>

\* The first publish: the Arabic post, with the media.
main_publish_ar ==
    /\ pc = "publish_ar"
    /\ \E success \in BOOLEAN :
          /\ send_to_telegram("ar", media_path, success)
          /\ success_ar' = IF success THEN "True" ELSE "False"
    /\ pc' = "publish_en"
    /\ UNCHANGED << translated, media_path, arabic_post, twitter_tweets,
                    success_en, media_file, connected, result >>
    /\ UNCHANGED << sourceVars, poolVars, callVars >>
    /\ UNCHANGED botVars
    /\ UNCHANGED processVars

\* The second publish: the thread, without media.
main_publish_en ==
    /\ pc = "publish_en"
    /\ \E success \in BOOLEAN :
          /\ send_to_telegram("en", "none", success)
          /\ success_en' = IF success THEN "True" ELSE "False"
    /\ pc' = "cleanup"
    /\ UNCHANGED << translated, media_path, arabic_post, twitter_tweets,
                    success_ar, media_file, connected, result >>
    /\ UNCHANGED << sourceVars, poolVars, callVars >>
    /\ UNCHANGED botVars
    /\ UNCHANGED processVars

\* A faulty variant of main_result: one successful publish is enough.
main_result_any(ar, en) ==
    IF ar = "True" \/ en = "True" THEN "True" ELSE "False"

\* `return success_ar and success_en`
main_result(ar, en) ==
    IF ar = "True" /\ en = "True" THEN "True" ELSE "False"

\* os.remove(media_path) when the file exists (a failure is ignored), then
\* client.disconnect() and the result.
main_finish ==
    /\ pc = "cleanup"
    /\ \/ /\ media_path = "file" /\ media_file = "present"
          /\ media_file' = "deleted"
          /\ removes' = removes + 1
       \/ /\ media_path = "file" /\ media_file = "present"
          /\ UNCHANGED media_file
          /\ removes' = removes + 1
       \/ /\ ~(media_path = "file" /\ media_file = "present")
          /\ UNCHANGED << media_file, removes >>
    /\ connected' = FALSE
    /\ result' = main_result(success_ar, success_en)
    /\ pc' = "done"
    /\ UNCHANGED << translated, media_path, arabic_post, twitter_tweets,
                    success_ar, success_en, publishes >>
    /\ UNCHANGED << sourceVars, poolVars, callVars >>
    /\ UNCHANGED botVars
    /\ UNCHANGED missing

\* A faulty variant of main_fatal: the except clause returns False without
\* client.disconnect().
main_fatal_keeps_connection ==
    /\ pc = "fatal"
    /\ result' = "False"
    /\ pc' = "done"
    /\ UNCHANGED << translated, media_path, arabic_post, twitter_tweets,
                    success_ar, success_en, media_file, publishes, connected >>
    /\ UNCHANGED << sourceVars, poolVars, callVars >>
    /\ UNCHANGED botVars
    /\ UNCHANGED processVars

\* The except clause of main(): client.disconnect(), return False.
main_fatal ==
    /\ pc = "fatal"
    /\ disconnect_and_fail
    /\ UNCHANGED << translated, media_path, arabic_post, twitter_tweets,
                    success_ar, success_en, media_file, publishes >>
    /\ UNCHANGED << sourceVars, poolVars, callVars >>
    /\ UNCHANGED botVars
    /\ UNCHANGED processVars

\* sys.exit(0) when main() returned True, sys.exit(1) otherwise.
exit_code == IF result = "True" THEN 0 ELSE 1

(* ---------------------------------------------------------------- bot.py *)
\* The variables bot.py has no counterpart of.
advancedVars == << iterated, messages, all_messages, filtered_messages, post,
                   relaxed, translated, media_path, arabic_post, twitter_tweets,
                   success_ar, success_en, media_file, connected, result,
                   current_key, OPENAI_API_KEYS, BLOCKED_KEYS, resets >>

\* fetch_content(): random.choice(sample_contents).strip(), the three texts
\* by their length and their letters.
sample_contents == { Text(179, 0, 134), Text(142, 0, 111), Text(143, 0, 110) }

\* response.json()['choices'][0]['message']['content'].strip()
ResultSamples == { Text(150, 100, 120), Text(40, 0, 30), Text(0, 0, 0) }

\* What get_channel_posts can meet: getChat answers 200, answers another
\* status, or the request (or the decoding of its error) raises.
ChannelOutcomes == { "accessible", "inaccessible", "raises" }

\* `if attempt < max_retries: time.sleep(attempt * 2)` and the next
\* iteration, or the end of the loop.
bot_end_of_attempt ==
    IF attempt < max_retries(pc)
    THEN /\ wait' = attempt * 2
         /\ attempt' = attempt + 1
         /\ UNCHANGED << step, ret >>
    ELSE /\ wait' = 0
         /\ step' = "returned"
         /\ ret' = None
         /\ UNCHANGED attempt

\* main() calls fetch_content(), which calls fetch_content_from_sources():
\* its loop over SOURCE_CHANNELS starts.
bot_main ==
    /\ pc = "bot.start"
    /\ pc' = "get_channel_posts"
    /\ channel' = 1
    /\ UNCHANGED << fetched, failed, publishes, botVars, advancedVars >>
    /\ UNCHANGED << ret, step, attempt, calls, total_calls, call_failed,
                    status, body, wait >>
    /\ UNCHANGED processVars

\* get_channel_posts(channel, POSTS_LIMIT): [] in every case, an exception
\* is caught and logged; then the next channel, or the end of the loop.
get_channel_posts ==
    /\ pc = "get_channel_posts"
    /\ \E outcome \in ChannelOutcomes :
          failed' = IF outcome = "raises" THEN failed \cup {channel} ELSE failed
    /\ fetched' = fetched \cup {channel}
    /\ channel' = channel + 1
    /\ pc' = IF channel < NumChannels THEN "get_channel_posts" ELSE "fetch_content"
    /\ UNCHANGED << publishes, botVars, advancedVars >>
    /\ UNCHANGED << ret, step, attempt, calls, total_calls, call_failed,
                    status, body, wait >>
    /\ UNCHANGED processVars

\* all_content is empty: fetch_content_from_sources returns None and
\* fetch_content one of its sample texts; main() calls
\* ai_translate_and_summarize(raw_content).
fetch_content ==
    /\ pc = "fetch_content"
    /\ \E text \in sample_contents : raw_content' = text
    /\ pc' = "ai_translate_and_summarize"
    /\ step' = "post"
    /\ attempt' = 1
    /\ UNCHANGED << channel, fetched, failed, publishes, processed_content,
                    sys_exit, advancedVars >>
    /\ UNCHANGED << ret, calls, total_calls, call_failed, status, body, wait >>
    /\ UNCHANGED processVars

\* One iteration of the loop of ai_translate_and_summarize: the POST, then
\* the result of a 200 response, or the log and the wait.
ai_translate_and_summarize ==
    /\ pc = "ai_translate_and_summarize"
    /\ step = "post"
    /\ calls' = calls + 1
    /\ total_calls' = total_calls + 1
    /\ \/ \E text \in ResultSamples :
            /\ status' = 200
            /\ body' = text
            /\ step' = "returned"
            /\ ret' = text
            /\ wait' = 0
            /\ call_failed' = (call_failed \/ text.len = 0)
            /\ UNCHANGED attempt
       \/ /\ \E code \in Statuses \ {200} : status' = code
          /\ body' = None
          /\ call_failed' = TRUE
          /\ bot_end_of_attempt
       \/ /\ status' = 0
          /\ body' = None
          /\ call_failed' = TRUE
          /\ bot_end_of_attempt
    /\ UNCHANGED << pc, channel, fetched, failed, publishes, botVars,
                    advancedVars >>
    /\ UNCHANGED processVars

\* main() after ai_translate_and_summarize: sys.exit(1) without a text, or
\* the footer and the call of send_to_telegram.
bot_main_processed ==
    /\ pc = "ai_translate_and_summarize"
    /\ step = "returned"
    /\ processed_content' = ret
    /\ IF ret = None \/ ret.len = 0
       THEN /\ sys_exit' = 1
            /\ pc' = "done"
            /\ step' = "idle"
            /\ attempt' = 0
       ELSE /\ pc' = "bot.send_to_telegram"
            /\ step' = "post"
            /\ attempt' = 1
            /\ UNCHANGED sys_exit
    /\ ret' = None
    /\ calls' = 0
    /\ status' = 0
    /\ body' = None
    /\ wait' = 0
    /\ UNCHANGED << channel, fetched, failed, publishes, raw_content,
                    total_calls, call_failed, advancedVars >>
    /\ UNCHANGED processVars

\* A faulty variant of bot_send_to_telegram: the loop goes on after a 200.
bot_send_to_telegram_keeps_sending ==
    /\ pc = "bot.send_to_telegram"
    /\ step = "post"
    /\ \E code \in {200, 400, 0} :
          /\ status' = code
          /\ publishes' = Append(publishes,
                                 [target |-> "channel", media |-> FALSE,
                                  ok |-> code = 200])
          /\ IF attempt < max_retries(pc)
             THEN /\ wait' = attempt * 2
                  /\ attempt' = attempt + 1
                  /\ UNCHANGED << pc, step, sys_exit >>
             ELSE /\ sys_exit' = IF \E k \in 1..Len(publishes') : publishes'[k].ok
                                 THEN 0 ELSE 1
                  /\ pc' = "done"
                  /\ step' = "idle"
                  /\ wait' = 0
                  /\ UNCHANGED attempt
    /\ UNCHANGED << channel, fetched, failed, raw_content, processed_content,
                    advancedVars >>
    /\ UNCHANGED << ret, calls, total_calls, call_failed, body >>
    /\ UNCHANGED processVars

\* One iteration of the loop of bot.py's send_to_telegram: the POST; True
\* after a 200 and main() exits with 0; after the last failed attempt False
\* and main() exits with 1.
bot_send_to_telegram ==
    /\ pc = "bot.send_to_telegram"
    /\ step = "post"
    /\ \E code \in {200, 400, 0} :
          /\ status' = code
          /\ publishes' = Append(publishes,
                                 [target |-> "channel", media |-> FALSE,
                                  ok |-> code = 200])
          /\ IF code = 200
             THEN /\ sys_exit' = 0
                  /\ pc' = "done"
                  /\ step' = "idle"
                  /\ wait' = 0
                  /\ UNCHANGED attempt
             ELSE IF attempt < max_retries(pc)
             THEN /\ wait' = attempt * 2
                  /\ attempt' = attempt + 1
                  /\ UNCHANGED << pc, step, sys_exit >>
             ELSE /\ sys_exit' = 1
                  /\ pc' = "done"
                  /\ step' = "idle"
                  /\ wait' = 0
                  /\ UNCHANGED attempt
    /\ UNCHANGED << channel, fetched, failed, raw_content, processed_content,
                    advancedVars >>
    /\ UNCHANGED << ret, calls, total_calls, call_failed, body >>
    /\ UNCHANGED processVars

(* ---------------------------------------------------------------- Next *)
Next ==
    \/ validation
    \/ bot_validation
    \/ main_start
    \/ main_start_raises
    \/ fetch_recent_posts_iter
    \/ fetch_recent_posts_return
    \/ fetch_recent_posts_except
    \/ get_content_from_sources
    \/ get_content_from_sources_raises
    \/ main_post
    \/ acquire_key
    \/ translate_to_arabic
    \/ main_translated
    \/ main_media
    \/ generate_arabic_post
    \/ main_arabic_post
    \/ generate_english_twitter_thread
    \/ main_thread
    \/ translate_to_english
    \/ main_translated_english
    \/ main_final_check
    \/ main_publish_ar
    \/ main_publish_en
    \/ main_finish
    \/ main_fatal
    \/ bot_main
    \/ get_channel_posts
    \/ fetch_content
    \/ ai_translate_and_summarize
    \/ bot_main_processed
    \/ bot_send_to_telegram

Spec == Init /\ [][Next]_vars

(* -------------------------------------------------------------- claims *)
AllKeysBlocked ==
    \A i \in 1..Len(OPENAI_API_KEYS) : OPENAI_API_KEYS[i] \in BLOCKED_KEYS

\* A step in which a transform function handles the response to its POST.
ResponseHandled ==
    pc \in TransformFunctions /\ step = "post" /\ step' # "post"

\* A step in which a transform function takes a key from get_next_available_key.
KeyTaken == pc \in TransformFunctions /\ step = "key" /\ step' = "post"

\* C1: a credential in the blocked set is not returned by
\* get_next_available_key to a transform function, unless that very call found
\* every credential blocked and cleared the blocked set.
C1_BlockedKeyNotReturned ==
    [][ KeyTaken =>
          \/ current_key' \notin BLOCKED_KEYS
          \/ AllKeysBlocked /\ BLOCKED_KEYS' = {} ]_vars

\* C1 witness: a key is handed out while another one is blocked.
C1_Witness ==
    step = "post" /\ BLOCKED_KEYS # {} /\ current_key \notin BLOCKED_KEYS

\* C2 as stated: after a response 429, 401 or 403 has been handled, the
\* credential used for the call is in the blocked set.
C2_Original ==
    [][ (ResponseHandled /\ status' \in {429, 401, 403})
          => current_key \in BLOCKED_KEYS' ]_vars

\* C2 amended: after a response 429 has been handled, the credential used for
\* the call is in the blocked set; 401 and 403 leave the blocked set as it was.
C2_RateLimitBlocksKey ==
    [][ /\ (ResponseHandled /\ status' = 429) => current_key \in BLOCKED_KEYS'
        /\ (ResponseHandled /\ status' \in {401, 403})
              => BLOCKED_KEYS' = BLOCKED_KEYS ]_vars

\* C2 witness: a 429 has been handled and its key is blocked.
C2_Witness ==
    /\ pc \in TransformFunctions
    /\ step \in {"key", "returned"}
    /\ status = 429
    /\ current_key \in BLOCKED_KEYS

\* C3 as stated: the blocked set is cleared at most once in a run, and only
\* when every credential is blocked.
C3_Original ==
    [][ resets' # resets => (resets = 0 /\ AllKeysBlocked) ]_vars

\* C3 amended: a credential leaves the blocked set only by a clear of the
\* whole set, made by get_next_available_key at a moment when every credential
\* is blocked; a run can clear it more than once.
C3_ClearedOnlyWhenAllBlocked ==
    [][ (resets' # resets \/ ~(BLOCKED_KEYS \subseteq BLOCKED_KEYS'))
          => /\ KeyTaken
             /\ AllKeysBlocked
             /\ BLOCKED_KEYS' = {}
             /\ resets' = resets + 1 ]_vars

\* C3 witness: the blocked set has been cleared a second time.
C3_Witness == resets = 2 /\ BLOCKED_KEYS = {} /\ step = "post"

\* C4 as stated: a rate-limit response leaves the number of attempts the
\* function has left as it was.
C4_Original ==
    [][ (ResponseHandled /\ status' = 429)
          => (step' = "key" /\ attempt' = attempt) ]_vars

\* C4 amended: a rate-limit response consumes the attempt: the function goes
\* on with attempt + 1, or returns None when that was its last attempt (or, in
\* translate_to_arabic, when every credential is now blocked).
C4_RateLimitConsumesAttempt ==
    [][ (ResponseHandled /\ status' = 429)
          => \/ /\ step' = "key"
                /\ attempt' = attempt + 1
                /\ attempt < max_retries(pc)
             \/ /\ step' = "returned"
                /\ ret' = None
                /\ \/ attempt = max_retries(pc)
                   \/ /\ pc = "translate_to_arabic"
                      /\ Cardinality(BLOCKED_KEYS') >= Len(OPENAI_API_KEYS) ]_vars

\* C4 witness: after one rate-limited call the function is at its second
\* attempt.
C4_Witness ==
    /\ pc \in TransformFunctions
    /\ step = "key"
    /\ status = 429
    /\ attempt = 2
    /\ calls = 1

\* C5: get_next_available_key returns the first credential, in configuration
\* order, that is not blocked and leaves the blocked set alone; when every
\* credential is blocked it returns the first one and leaves the set empty.
C5_FirstUnblockedKey ==
    [][ KeyTaken =>
          LET free == { i \in 1..Len(OPENAI_API_KEYS) :
                          OPENAI_API_KEYS[i] \notin BLOCKED_KEYS }
          IN  IF free = {}
              THEN current_key' = OPENAI_API_KEYS[1] /\ BLOCKED_KEYS' = {}
              ELSE /\ \E i \in free :
                        /\ \A j \in free : i <= j
                        /\ current_key' = OPENAI_API_KEYS[i]
                   /\ BLOCKED_KEYS' = BLOCKED_KEYS ]_vars

\* C5 witness: with the first credential blocked, the second one is returned.
C5_Witness ==
    /\ step = "post"
    /\ Len(OPENAI_API_KEYS) >= 2
    /\ BLOCKED_KEYS = {OPENAI_API_KEYS[1]}
    /\ current_key = OPENAI_API_KEYS[2]

\* C6: a transform function returns a text only when the response of that
\* very attempt was a 200 whose text passed its validation; a rejected text
\* is never returned.
C6_ReturnsOnlyValidated ==
    (pc \in TransformFunctions /\ step = "returned" /\ ret # None) =>
        /\ status = 200
        /\ ret = body
        /\ pc = "translate_to_arabic" =>
              (ret.alpha > 0 /\ 2 * ret.arabic > ret.alpha)
        /\ pc = "generate_arabic_post" =>
              (ret.alpha > 0 /\ 10 * ret.arabic > 6 * ret.alpha /\ ret.len > 300)
        /\ pc = "translate_to_english" => (ret.arabic = 0 /\ ret.len > 20)

\* C6 witness: generate_arabic_post returns the text of its third attempt.
C6_Witness ==
    /\ pc = "generate_arabic_post"
    /\ step = "returned"
    /\ ret # None
    /\ attempt = 3
    /\ calls = 3

\* C7 as stated: for an input text shorter than 50 characters a transform
\* function issues no call.
C7_Original ==
    (pc \in TransformFunctions /\ input_text.len < 50) => calls = 0

\* C7 amended: a call to the transformation endpoint is made only for a
\* selected source text of at least MIN_CONTENT_LENGTH // 2 characters
\* (bot_advanced), or for one of the sample texts of fetch_content, all
\* longer than 50 characters (bot.py).
C7_NoCallForShortSource ==
    total_calls > 0 =>
        \/ post # None /\ post.slen >= MIN_CONTENT_LENGTH \div 2
        \/ raw_content \in sample_contents /\ raw_content.len >= 50

\* C7 witness: a call is made for a source text under MIN_CONTENT_LENGTH.
C7_Witness ==
    /\ pc \in TransformFunctions
    /\ step = "post"
    /\ post.slen < MIN_CONTENT_LENGTH

\* C8 as stated: whenever get_content_from_sources returns None it has
\* relaxed the threshold exactly once.
C8_Original == (pc = "main_post" /\ post = None) => relaxed = 1

\* C8 amended: when messages were fetched and none meets MIN_CONTENT_LENGTH,
\* the threshold is relaxed exactly once, and None is returned only when no
\* message meets the halved threshold either; when no message was fetched,
\* None is returned without relaxing.
C8_RelaxedOnce ==
    pc = "main_post" =>
        LET meets(t) == { i \in 1..Len(all_messages) :
                            all_messages[i].len > 0 /\ all_messages[i].slen >= t }
        IN  /\ relaxed = IF all_messages # << >> /\ meets(MIN_CONTENT_LENGTH) = {}
                         THEN 1 ELSE 0
            /\ post = None <=>
                 (all_messages = << >> \/ meets(MIN_CONTENT_LENGTH \div 2) = {})

\* C8 witness: messages were fetched, the threshold was relaxed, None returned.
C8_Witness ==
    pc = "main_post" /\ post = None /\ all_messages # << >> /\ relaxed = 1

\* C9: a fetch that raises does not reach main() as an exception, and every
\* channel of SOURCE_CHANNELS is still fetched.
C9_FetchErrorsContained ==
    /\ failed # {} => pc # "fatal"
    /\ pc \in {"fetch", "get_channel_posts"} => fetched = 1..(channel - 1)
    /\ pc \in {"select", "main_post", "fetch_content"} =>
          fetched = 1..NumChannels

\* C9 witness: the first channel raised and a later one gave messages.
C9_Witness ==
    /\ pc = "select"
    /\ failed = {1}
    /\ fetched = 1..NumChannels
    /\ all_messages # << >>

\* C10: the selected message is one of the first max(1, n // 3) of the n
\* surviving messages in descending order of text length, so fewer than that
\* many survivors are longer than it and none outside that set is longer than
\* a member of it.
C10_SelectedFromTopThird ==
    (pc = "main_post" /\ post # None) =>
        LET n == Len(filtered_messages)
            top == IF n \div 3 >= 1 THEN n \div 3 ELSE 1
        IN  /\ n >= 1
            /\ \E i \in 1..top : filtered_messages[i] = post
            /\ Cardinality({ i \in 1..n :
                               filtered_messages[i].len > post.len }) < top
            /\ \A i \in 1..top : \A j \in (top + 1)..n :
                  filtered_messages[j].len <= filtered_messages[i].len
            /\ n = Cardinality({ i \in 1..Len(all_messages) :
                     /\ all_messages[i].len > 0
                     /\ all_messages[i].slen >=
                          IF relaxed = 1 THEN MIN_CONTENT_LENGTH \div 2
                          ELSE MIN_CONTENT_LENGTH })

\* C10 witness: the second member of a top third of two is selected.
C10_Witness ==
    /\ pc = "main_post"
    /\ Len(filtered_messages) >= 6
    /\ post = filtered_messages[2]
    /\ post # filtered_messages[1]

\* The states before any message has been selected, in both scripts.
BeforeSelection ==
    pc \in { "validation", "start", "fetch", "select", "main_post",
             "bot.validation", "bot.start", "get_channel_posts", "fetch_content" }

\* C11 as stated: the message fetches and the download of the selected
\* message's media are over before the first call to the transformation
\* endpoint begins.
C11_Original ==
    /\ BeforeSelection => total_calls = 0
    /\ (pc = "media" /\ post.media) => total_calls = 0

\* C11 amended: every message fetch is over before the first call to the
\* transformation endpoint; the download of the media begins after
\* translate_to_arabic returned, when the text was not Arabic, and before
\* any call of the other transform functions.
C11_FetchesBeforeTransform ==
    /\ BeforeSelection => total_calls = 0
    /\ pc = "translate_to_arabic" =>
          (media_path = "none" /\ media_file = "absent")
    /\ pc = "media" =>
          /\ media_path = "none" /\ media_file = "absent"
          /\ total_calls <= translate_to_arabic_max_retries
          /\ total_calls > 0 => detect_language(post) # "arabic"
    /\ pc \in TransformFunctions \ {"translate_to_arabic"} =>
          (media_path = "file" <=> media_file = "present")

\* C11 witness: the download of the media is about to begin and calls to the
\* transformation endpoint have been made.
C11_Witness == pc = "media" /\ post.media /\ total_calls > 0

\* C12: a call to the transformation endpoint is made only while nothing has
\* been published, and a publish is made only when no transform function is
\* running or still to be called, the translate_to_english fallback included.
C12_TransformBeforePublish ==
    [][ /\ total_calls' # total_calls => (publishes = << >> /\ publishes' = << >>)
        /\ publishes' # publishes =>
              /\ pc \in {"publish_ar", "publish_en", "bot.send_to_telegram"}
              /\ pc' \in {"publish_en", "cleanup", "bot.send_to_telegram", "done"} ]_vars

\* C12 witness: the first publish is made after the thread functions failed
\* and translate_to_english gave the text of the thread.
C12_Witness ==
    /\ pc = "publish_en"
    /\ Len(publishes) = 1
    /\ twitter_tweets.tweets[1] = Tweet(18)
    /\ total_calls >= 5

\* C13: the second publish is attempted whatever the first one gave, and
\* success_ar and success_en record the two attempts separately.
C13_PublishesIndependent ==
    /\ pc = "publish_en" =>
          /\ Len(publishes) = 1
          /\ success_ar = IF publishes[1].ok THEN "True" ELSE "False"
          /\ success_en = "unset"
    /\ (pc = "cleanup" \/ (pc = "done" /\ success_ar # "unset")) =>
          /\ Len(publishes) = 2
          /\ publishes[1].target = "ar" /\ publishes[2].target = "en"
          /\ success_ar = IF publishes[1].ok THEN "True" ELSE "False"
          /\ success_en = IF publishes[2].ok THEN "True" ELSE "False"

\* C13 witness: the first publish failed and the second one succeeded.
C13_Witness == pc = "cleanup" /\ success_ar = "False" /\ success_en = "True"

\* C14 as stated: a failed publish attempt that carried the media is followed
\* by exactly one more attempt for the same target, without the media.
C14_Original ==
    (pc = "publish_en" /\ publishes[1].media /\ ~publishes[1].ok) =>
        /\ Len(publishes) = 2
        /\ publishes[2].target = "ar"
        /\ ~publishes[2].media

\* C14 amended: a publish attempt that carried the media and failed is the
\* only attempt for its target: the failure is recorded in success_ar and no
\* attempt without the media is made.
C14_NoTextOnlyRetry ==
    /\ (pc = "publish_en" /\ publishes[1].media /\ ~publishes[1].ok) =>
          (Len(publishes) = 1 /\ success_ar = "False")
    /\ (success_ar # "unset" /\ pc \in {"publish_en", "cleanup", "done"}) =>
          /\ Cardinality({ i \in 1..Len(publishes) :
                             publishes[i].target = "ar" }) = 1
          /\ publishes[1].media <=> media_path = "file"

\* C14 witness: the publish of the Arabic post with its media failed.
C14_Witness ==
    /\ pc = "publish_en"
    /\ publishes[1].media
    /\ ~publishes[1].ok

\* C15: when a media file was downloaded, os.remove(media_path) is called
\* exactly once in the run, and only after both publish attempts were made.
C15_Original ==
    /\ (pc = "done" /\ media_path = "file") => removes = 1
    /\ removes > 0 => Len(publishes) = 2

\* The argument of the sys.exit that ends the process.
exit_status == IF sys_exit # -1 THEN sys_exit ELSE exit_code

\* C16 as stated: exit code 0 when at least one publish succeeded, 1 when
\* every publish failed.
C16_Original ==
    (pc = "done" /\ publishes # << >>) =>
        exit_status = IF \E i \in 1..Len(publishes) : publishes[i].ok
                      THEN 0 ELSE 1

\* C16 amended: bot_advanced exits with 0 when both of its publishes
\* succeeded and with 1 when at least one of them failed; bot.py exits with 0
\* when an attempt of its one publish succeeded and with 1 when all failed.
C16_ExitCode ==
    (pc = "done" /\ publishes # << >>) =>
        IF publishes[1].target = "channel"
        THEN exit_status = IF \E i \in 1..Len(publishes) : publishes[i].ok
                           THEN 0 ELSE 1
        ELSE exit_status = IF \A i \in 1..Len(publishes) : publishes[i].ok
                           THEN 0 ELSE 1

\* C16 witness: one publish of bot_advanced succeeded, the other one failed,
\* and the exit code is 1.
C16_Witness ==
    /\ pc = "done"
    /\ success_ar = "True"
    /\ success_en = "False"
    /\ exit_status = 1

\* C17: when a required setting is missing the process ends with
\* sys.exit(1) at the module-level check: no connection, no fetch, no call to
\* the transformation endpoint and no publish is made.
C17_MissingSettingExits ==
    missing # "nothing" =>
        /\ pc \in {"validation", "bot.validation", "done"}
        /\ pc = "done" => sys_exit = 1
        /\ ~connected
        /\ fetched = {}
        /\ iterated = 0
        /\ media_path = "none"
        /\ total_calls = 0
        /\ publishes = << >>

\* C17 witness: OPENAI_API_KEYS is missing and the process has exited.
C17_Witness == pc = "done" /\ missing = "openai" /\ sys_exit = 1

\* No message of all_messages meets the threshold get_content_from_sources
\* falls back to.
NoQualifyingMessage ==
    \A i \in 1..Len(all_messages) :
        all_messages[i].len = 0 \/ all_messages[i].slen < MIN_CONTENT_LENGTH \div 2

\* C18 as stated: in both scripts a run whose channels yield no qualifying
\* message ends with a failure exit, without a call to the transformation
\* endpoint and without a publish.  In bot.py no channel ever yields a
\* message.
C18_Original ==
    /\ (pc = "done" /\ result = "False" /\ post = None) =>
          (exit_status = 1 /\ total_calls = 0 /\ publishes = << >>)
    /\ (pc = "done" /\ missing = "nothing" /\ sys_exit # -1) =>
          (exit_status = 1 /\ total_calls = 0 /\ publishes = << >>)

\* C18 amended: in bot_advanced, when no fetched message qualifies,
\* get_content_from_sources returns None and main() disconnects and returns
\* False (exit code 1) with no call to the transformation endpoint, no
\* download and no publish; in bot.py, fetch_content then takes one of its
\* sample texts and goes on to ai_translate_and_summarize.
C18_NoContentNoCalls ==
    /\ [][(pc = "main_post" /\ NoQualifyingMessage) =>
            /\ post = None
            /\ pc' = "done"
            /\ result' = "False"
            /\ exit_code' = 1
            /\ ~connected'
            /\ total_calls' = 0
            /\ media_path' = "none"
            /\ publishes' = << >>]_vars
    /\ [][pc = "fetch_content" =>
            /\ total_calls = 0
            /\ publishes = << >>
            /\ raw_content' \in sample_contents
            /\ pc' = "ai_translate_and_summarize"
            /\ step' = "post"]_vars

\* C18 witness: every channel was fetched, messages came, none qualifies.
C18_Witness ==
    /\ pc = "main_post"
    /\ Len(all_messages) >= 2
    /\ NoQualifyingMessage
    /\ fetched = 1..NumChannels

\* Every publish attempt of the run succeeded, and every call to the
\* transformation endpoint gave its function the text it returned.
AllFirstTry ==
    /\ pc = "done"
    /\ ~call_failed
    /\ publishes # << >>
    /\ \A i \in 1..Len(publishes) : publishes[i].ok

\* C19 as stated: a run on a valid source text of 300 characters in which
\* the transformation succeeds with the first credential makes exactly one
\* call to the transformation endpoint and one publish, and exits with 0.
C19_Original ==
    (AllFirstTry /\ post # None /\ post.slen = 300) =>
        /\ total_calls = 1
        /\ Len(publishes) = 1
        /\ exit_status = 0

\* C19 amended: a run of bot.py in which the transformation and the publish
\* succeed at once makes one call and one publish and exits with 0; such a
\* run of bot_advanced makes one call per transform function, two for an
\* Arabic source text and three for any other, and two publishes, the Arabic
\* post and then the thread, and exits with 0.
C19_FirstTrySuccess ==
    /\ (AllFirstTry /\ publishes[1].target = "channel") =>
          /\ total_calls = 1
          /\ Len(publishes) = 1
          /\ exit_status = 0
    /\ (AllFirstTry /\ publishes[1].target # "channel") =>
          /\ total_calls = IF detect_language(post) = "arabic" THEN 2 ELSE 3
          /\ Len(publishes) = 2
          /\ publishes[1].target = "ar"
          /\ publishes[2].target = "en"
          /\ exit_status = 0

\* C19 witness: the source text of 300 characters, three calls, two
\* publishes, exit code 0.
C19_Witness ==
    /\ AllFirstTry
    /\ post # None
    /\ post.slen = 300
    /\ total_calls = 3
    /\ Len(publishes) = 2
    /\ exit_status = 0

\* C20: no tweet of a thread generate_english_twitter_thread parses or
\* returns is longer than TWEET_CAP: a tweet over the cap is cut to its first
\* 277 characters followed by "...", every other kept tweet is unchanged.
C20_TweetsWithinCap ==
    /\ (pc = "generate_english_twitter_thread" /\ body # None) =>
          \A i \in 1..Len(body.tweets) : body.tweets[i].len <= TWEET_CAP
    /\ (pc = "generate_english_twitter_thread" /\ step = "returned"
          /\ ret # None) =>
          \A i \in 1..Len(ret.tweets) : ret.tweets[i].len <= TWEET_CAP
    /\ pc = "validation" =>
          \A lines \in ThreadSamples :
              LET kept == SelectSeq(lines, LAMBDA l : l.tweet /\ l.arabic = 0
                                                       /\ l.len > 10)
                  tweets == parse_tweets(lines)
              IN  /\ Len(tweets) = Len(kept)
                  /\ \A i \in 1..Len(kept) :
                        tweets[i].len = IF kept[i].len > TWEET_CAP
                                        THEN TWEET_CAP ELSE kept[i].len

\* C20 witness: a returned thread holds a tweet that was cut to the cap.
C20_Witness ==
    /\ pc = "generate_english_twitter_thread"
    /\ step = "returned"
    /\ ret # None
    /\ \E i \in 1..Len(ret.tweets) : ret.tweets[i].len = TWEET_CAP

\* C21: generate_english_twitter_thread returns a thread of at least
\* MIN_TWEETS tweets or None: a line with an Arabic character gives no tweet,
\* a response that leaves fewer than MIN_TWEETS tweets is never returned, and
\* after such a response at the last attempt the function returns None.
C21_AtLeastThreeTweets ==
    /\ [](( pc = "generate_english_twitter_thread" /\ step = "returned"
             /\ ret # None) =>
              /\ Len(ret.tweets) >= MIN_TWEETS
              /\ \A i \in 1..Len(ret.tweets) : ret.tweets[i].arabic = 0)
    /\ [](pc = "validation" =>
              \A lines \in ThreadSamples :
                  /\ Len(parse_tweets(lines)) =
                        Len(SelectSeq(lines, LAMBDA l : l.tweet /\ l.arabic = 0
                                                         /\ l.len > 10))
                  /\ sum_arabic(parse_tweets(lines)) = 0)
    /\ [][( pc = "generate_english_twitter_thread" /\ step = "post"
             /\ status' = 200 /\ Len(body'.tweets) < MIN_TWEETS) =>
              /\ ret' = None
              /\ step' = IF attempt < generate_english_twitter_thread_max_retries
                         THEN "key" ELSE "returned"]_vars

\* C21 witness: the last attempt's response held fewer than MIN_TWEETS
\* tweets, one of its lines having Arabic characters, and None is returned.
C21_Witness ==
    /\ pc = "generate_english_twitter_thread"
    /\ step = "returned"
    /\ ret = None
    /\ status = 200
    /\ body # None
    /\ Len(body.tweets) = MIN_TWEETS - 1
    /\ attempt = generate_english_twitter_thread_max_retries

\* The calls a run of bot_advanced can make when its four transform
\* functions all run and all use up their attempts.
MaxRunCalls ==
    translate_to_arabic_max_retries + generate_arabic_post_max_retries
    + generate_english_twitter_thread_max_retries
    + translate_to_english_max_retries

\* C22: a transform function issues at most max_retries calls, whatever the
\* responses were; after the response to its last call it returns, None
\* unless that response was a valid 200; a run of bot_advanced issues at
\* most 2 + 3 + 3 + 2 = 10 calls and a run of bot.py at most 3.
C22_BoundedCalls ==
    /\ [](pc \in TransformFunctions =>
              (calls <= max_retries(pc) /\ calls <= attempt))
    /\ [](pc = "ai_translate_and_summarize" =>
              (calls <= ai_translate_and_summarize_max_retries
               /\ total_calls = calls))
    /\ [](total_calls <= MaxRunCalls)
    /\ [](MaxRunCalls = 10)
    /\ [][( pc \in TransformFunctions \cup {"ai_translate_and_summarize"}
             /\ step = "post" /\ attempt = max_retries(pc)) =>
              /\ step' = "returned"
              /\ status' # 200 => ret' = None]_vars

\* C22 witness: the four transform functions of bot_advanced used up their
\* attempts, ten calls were made, and the run is over.
C22_Witness == pc = "done" /\ result # "running" /\ total_calls = MaxRunCalls

\* The last response was an error status other than the rate limit, or the
\* POST raised.
FailedByError == total_calls > 0 /\ status # 200 /\ ~is_rate_limit(status)

\* The transform function is about to make attempt number `attempt`, after
\* the failure of the one before.
BeforeRetry ==
    /\ attempt > 1
    /\ \/ pc \in TransformFunctions /\ step \in {"key", "post"}
       \/ pc = "ai_translate_and_summarize" /\ step = "post"

\* The seconds the function sleeps after an error.
backoff_seconds(function) ==
    CASE function \in {"translate_to_arabic", "translate_to_english"} -> 3
      [] function \in {"generate_arabic_post",
                       "generate_english_twitter_thread"} -> 5
      [] function = "ai_translate_and_summarize" -> 2

\* C23 as stated: after the failure of attempt n by an error status or a
\* transport error the function waits n times its constant.
C23_Original ==
    (BeforeRetry /\ FailedByError) =>
        wait = (attempt - 1) * backoff_seconds(pc)

\* C23 amended: after such a failure of attempt n, bot.py's
\* ai_translate_and_summarize waits 2n seconds, and a transform function of
\* bot_advanced waits the same number of seconds after every attempt, 3 in
\* the translations and 5 in the generations; no wait follows the last
\* attempt.
C23_BackoffAfterError ==
    /\ (BeforeRetry /\ FailedByError) =>
          wait = IF pc = "ai_translate_and_summarize"
                 THEN (attempt - 1) * 2
                 ELSE backoff_seconds(pc)
    /\ ( pc \in TransformFunctions \cup {"ai_translate_and_summarize"}
          /\ step = "returned" /\ FailedByError) =>
          (wait = 0 /\ ret = None /\ attempt = max_retries(pc))

\* C23 witness: generate_arabic_post is about to make its third attempt
\* after an error and has slept 5 seconds, as after the first one.
C23_Witness ==
    /\ pc = "generate_arabic_post"
    /\ step = "key"
    /\ attempt = 3
    /\ FailedByError
    /\ wait = 5

\* C24: BLOCKED_KEYS changes in two ways only: the handling of a rate-limit
\* response adds current_key to it, and get_next_available_key empties it;
\* the handling of a rejected text, of another error status or of a
\* transport error leaves it as it was.
C24_BlockedSetFrame ==
    /\ [][ResponseHandled =>
            BLOCKED_KEYS' = IF is_rate_limit(status')
                            THEN BLOCKED_KEYS \cup {current_key}
                            ELSE BLOCKED_KEYS]_vars
    /\ [][BLOCKED_KEYS' # BLOCKED_KEYS =>
            \/ ResponseHandled /\ is_rate_limit(status')
            \/ /\ pc \in TransformFunctions
               /\ step = "key"
               /\ BLOCKED_KEYS' = {}]_vars

\* C24 witness: a text was rejected while a credential was blocked, and the
\* credential is still the one blocked credential.
C24_Witness ==
    /\ pc \in TransformFunctions
    /\ step = "key"
    /\ attempt > 1
    /\ status = 200
    /\ call_failed
    /\ Cardinality(BLOCKED_KEYS) = 1
    /\ Len(OPENAI_API_KEYS) > 1

\* C25 as stated: a channel whose fetch raised adds no message to
\* all_messages, so after fetches that all raised all_messages is empty.
C25_Original ==
    ( pc \in {"fetch", "select", "main_post"}
      /\ fetched # {} /\ failed = fetched ) => all_messages = << >>

\* C25 amended: a channel whose fetch raised adds to all_messages the
\* messages fetch_recent_posts had kept before the exception, none when it
\* was raised before the first of them; the messages of the other channels
\* are left as they were.
C25_FailedChannelKeepsRead ==
    [][(pc = "fetch" /\ failed' # failed) =>
          /\ failed' = failed \cup {channel}
          /\ fetched' = fetched \cup {channel}
          /\ all_messages' = all_messages \o messages
          /\ \A i \in 1..Len(messages) : keeps(messages[i])
          /\ iterated = 0 => all_messages' = all_messages]_vars

\* C25 witness: every channel fetched so far raised, after messages had
\* been kept, and these messages are in all_messages.
C25_Witness ==
    /\ pc \in {"fetch", "select"}
    /\ 1 \in fetched
    /\ failed = fetched
    /\ Len(all_messages) >= 2

\* The publish attempts are those of bot.py's send_to_telegram.
BotPublishes == publishes # << >> /\ publishes[1].target = "channel"

\* C26: bot.py's send_to_telegram makes one POST per attempt and at most
\* max_retries of them; a 200 is the answer to its last POST, after which it
\* returns True and main() exits with 0; it returns False, and main() exits
\* with 1, when max_retries POSTs got no 200.
C26_BoundedSends ==
    /\ pc = "bot.send_to_telegram" =>
          /\ attempt <= bot_send_to_telegram_max_retries
          /\ Len(publishes) = attempt - 1
          /\ \A i \in 1..Len(publishes) : ~publishes[i].ok
    /\ BotPublishes =>
          /\ Len(publishes) <= bot_send_to_telegram_max_retries
          /\ \A i \in 1..(Len(publishes) - 1) : ~publishes[i].ok
          /\ pc = "done" =>
                /\ sys_exit = IF publishes[Len(publishes)].ok THEN 0 ELSE 1
                /\ sys_exit = 1 =>
                      Len(publishes) = bot_send_to_telegram_max_retries

\* C26 witness: two POSTs failed, the third one got a 200.
C26_Witness ==
    /\ pc = "done"
    /\ BotPublishes
    /\ Len(publishes) = bot_send_to_telegram_max_retries
    /\ publishes[Len(publishes)].ok
    /\ sys_exit = 0

\* A transform function of bot_advanced has returned None to main().
ReturnedNone(function) == pc = function /\ step = "returned" /\ ret = None

\* main() holds the fallback post built from arabic_text and the canned
\* thread: generate_arabic_post, generate_english_twitter_thread and
\* translate_to_english all returned None.
OnlyFallbacks ==
    /\ post # None
    /\ arabic_post = fallback_post(arabic_text)
    /\ twitter_tweets # None
    /\ twitter_tweets.tweets = emergency_thread

\* C27: in bot_advanced a transform function that returns None never ends
\* the run: main() goes on with the source text, with the fallback post
\* built from it and with the canned thread, these pass the checks before
\* publishing, and both publish attempts are made.
C27_FailuresDoNotAbort ==
    /\ [][ReturnedNone("translate_to_arabic") =>
            (pc' = "media" /\ translated' = None)]_vars
    /\ [][ReturnedNone("generate_arabic_post") =>
            /\ pc' = "generate_english_twitter_thread"
            /\ arabic_post' = fallback_post(arabic_text)]_vars
    /\ [][ReturnedNone("generate_english_twitter_thread") =>
            pc' = "translate_to_english"]_vars
    /\ [][ReturnedNone("translate_to_english") =>
            /\ pc' = "final_check"
            /\ twitter_tweets' = [tweets |-> emergency_thread]]_vars
    /\ [][(pc = "final_check" /\ OnlyFallbacks) => pc' = "publish_ar"]_vars
    /\ []((pc = "done" /\ OnlyFallbacks) =>
              /\ Len(publishes) = 2
              /\ publishes[1].target = "ar"
              /\ publishes[2].target = "en")

\* C27 witness: the text was not Arabic, all four transform functions
\* returned None, and the run ended after its two publish attempts.
C27_Witness ==
    /\ pc = "done"
    /\ OnlyFallbacks
    /\ detect_language(post) # "arabic"
    /\ translated = None
    /\ Len(publishes) = 2

\* C28: when main() of bot_advanced has returned after a download, the
\* downloaded file is deleted.
C28_Original ==
    (pc = "done" /\ result # "running" /\ media_path = "file") =>
        media_file = "deleted"

\* Where main() of bot_advanced is between client.start() and its return.
AfterStart ==
    { "fetch", "select", "main_post", "translate_to_arabic", "media",
      "generate_arabic_post", "generate_english_twitter_thread",
      "translate_to_english", "final_check", "publish_ar", "publish_en",
      "cleanup" }

\* C29: once client.start() has succeeded the client stays connected until
\* main() returns, and every step by which main() returns, the except clause
\* included, has called client.disconnect().
C29_DisconnectBeforeReturn ==
    /\ [](pc \in AfterStart => (connected /\ result = "running"))
    /\ [](result # "running" => (~connected /\ pc = "done"))
    /\ [][(connected /\ pc' \notin AfterStart \cup {"fatal"}) =>
            (~connected' /\ result' # "running")]_vars

\* C29 witness: main() has returned at the check for Arabic content, before
\* any publish, and the client is disconnected.
C29_Witness ==
    /\ pc = "done"
    /\ result = "False"
    /\ arabic_post # None
    /\ twitter_tweets = None
    /\ publishes = << >>
    /\ ~connected

\* C30: the thread main() of bot_advanced hands to format_twitter_thread has
\* at least MIN_TWEETS tweets, none longer than TWEET_CAP, whether it was
\* generated, built from the translation of translate_to_english (cut to
\* 270 characters) or the canned one.
C30_FormattedThreadWellFormed ==
    /\ pc \in {"final_check", "publish_ar", "publish_en", "cleanup"} =>
          /\ twitter_tweets # None
          /\ Len(twitter_tweets.tweets) >= MIN_TWEETS
          /\ \A i \in 1..Len(twitter_tweets.tweets) :
                /\ twitter_tweets.tweets[i].len <= TWEET_CAP
                /\ twitter_tweets.tweets[i].len > 0
    /\ pc = "validation" =>
          /\ Len(emergency_thread) >= MIN_TWEETS
          /\ \A i \in 1..Len(emergency_thread) :
                emergency_thread[i].len <= TWEET_CAP
          /\ \A english \in EnglishSamples :
                /\ Len(translated_thread(english)) = MIN_TWEETS
                /\ translated_thread(english)[2].len <= 270

\* C30 witness: main() is about to format the thread built from a
\* translation of 300 characters, cut to 270.
C30_Witness ==
    /\ pc = "final_check"
    /\ Len(twitter_tweets.tweets) = 3
    /\ twitter_tweets.tweets[1] = Tweet(18)
    /\ twitter_tweets.tweets[2].len = 270

\* C31: the message get_content_from_sources returns has a stripped text of
\* at least MIN_CONTENT_LENGTH // 2 characters, and of at least
\* MIN_CONTENT_LENGTH when a fetched message has one: a message that
\* fetch_recent_posts kept for its photo or video, with a shorter caption,
\* is not selected.
C31_SelectedLongEnough ==
    /\ post # None =>
          (post.len > 0 /\ post.slen >= MIN_CONTENT_LENGTH \div 2)
    /\ (pc = "main_post" /\ post # None) =>
          /\ \E i \in 1..Len(all_messages) : all_messages[i] = post
          /\ \/ post.slen >= MIN_CONTENT_LENGTH
             \/ \A i \in 1..Len(all_messages) :
                   all_messages[i].slen < MIN_CONTENT_LENGTH

\* C31 witness: fetch_recent_posts kept a photo with a caption shorter than
\* MIN_CONTENT_LENGTH // 2, and a longer message was selected under the
\* relaxed threshold.
C31_Witness ==
    /\ pc = "main_post"
    /\ post # None
    /\ post.slen < MIN_CONTENT_LENGTH
    /\ \E i \in 1..Len(all_messages) :
          /\ all_messages[i].media
          /\ all_messages[i].len > 0
          /\ all_messages[i].slen < MIN_CONTENT_LENGTH \div 2

\* C32: when the handling of a rate-limit response in translate_to_arabic
\* leaves every credential of the pool blocked, the function returns None in
\* that step, without another call and with the pool still fully blocked;
\* the next key acquisition, with the pool fully blocked, clears the blocked
\* set and takes the first credential.
C32_Original ==
    /\ [][( pc = "translate_to_arabic" /\ ResponseHandled
             /\ is_rate_limit(status')
             /\ \A i \in 1..Len(OPENAI_API_KEYS) :
                   OPENAI_API_KEYS[i] \in BLOCKED_KEYS' ) =>
              /\ step' = "returned"
              /\ ret' = None
              /\ total_calls' = total_calls]_vars
    /\ [][(KeyTaken /\ AllKeysBlocked) =>
              /\ BLOCKED_KEYS' = {}
              /\ current_key' = OPENAI_API_KEYS[1]]_vars

\* The credentials of the configured pool.
Pool == { OPENAI_API_KEYS[i] : i \in 1..Len(OPENAI_API_KEYS) }

\* C33: in bot_advanced BLOCKED_KEYS holds credentials of the pool only; the
\* pool is not empty once the module-level checks have passed, and every
\* call of get_next_available_key by a transform function gives it a
\* credential of the pool, so that no transform function returns for want
\* of a credential.
C33_KeyAlwaysAvailable ==
    /\ [](BLOCKED_KEYS \subseteq Pool)
    /\ [](pc \in AfterStart \cup {"start", "fatal"} => OPENAI_API_KEYS # << >>)
    /\ []((pc \in TransformFunctions /\ step \in {"post", "returned"}) =>
              (current_key \in Pool /\ calls >= 1))
    /\ [][(pc \in TransformFunctions /\ step = "key") =>
              /\ step' = "post"
              /\ current_key' \in Pool
              /\ get_next_available_key(OPENAI_API_KEYS, BLOCKED_KEYS).key # 0
              /\ calls' = calls + 1]_vars

\* C33 witness: every credential was blocked, and get_next_available_key
\* has cleared BLOCKED_KEYS and returned the first credential of the pool.
C33_Witness ==
    /\ pc \in TransformFunctions
    /\ step = "post"
    /\ resets = 1
    /\ BLOCKED_KEYS = {}
    /\ current_key = OPENAI_API_KEYS[1]
    /\ Len(OPENAI_API_KEYS) = MaxKeys

====
